---- MODULE Spec2Model ----
(***************************************************************************)
(* Team forming for a code jam: form_teams.py picks team leaders to cover  *)
(* the timezones, lets the teams draft members (phase 1), places the       *)
(* leftovers (phase 2), repairs short teams with swap chains (phase 3) and *)
(* finally promotes the best leader candidate of every team.               *)
(*                                                                         *)
(* Timezones are whole hours on the 24 hour circle.  Experience averages   *)
(* are rationals, kept as <<numerator, denominator>> and compared by cross *)
(* multiplication.  A Python set has no specified iteration order: every   *)
(* iteration over a set (and every max() over one) is modelled with an     *)
(* arbitrary order, lists keep their order.                                *)
(***************************************************************************)
EXTENDS Integers, Sequences, FiniteSets, TLC

\* ---------------------------------------------------------------- constants
TARGET_TEAM_SIZE == 5
TARGET_TZ_SPAN == 3
MAX_TZ_SPAN == 4
\* 0.5, as <<numerator, denominator>>
TARGET_EXP_RADIUS == <<1, 2>>
SWAP_CHAIN_SEARCH_DEPTH == 3
\* the search depth form_teams passes to find_swap
TopSearchDepth == 3
\* length of the timezone circle
Day == 24
\* from_team_id of a hop whose person comes from UNASSIGNED (None)
None == 0

\* ------------------------------------------------------------------- bounds
\* largest roster that is loaded
MaxPeople == 9
\* the (timezone, experience, lead_priority) rows the participants file may
\* hold; rows are listed kind by kind
Kinds ==
    << <<8, 0, 0>>, <<2, 0, 1>>, <<6, 1, 0>>, <<4, 2, 2>>, <<0, 1, 2>> >>
\* timezones the geometry functions are probed with, and how many at once
TzValues == 0..(Day - 1)
MaxProbe == 2

VARIABLES
    pc,                \* position in __main__ / form_teams
    PEOPLE,            \* list[Person]
    EXP_AVG,           \* mean experience of PEOPLE, <<sum, count>>
    potential_leaders, \* set[Person]
    leaders,           \* set[Person]
    anchor_i,          \* index into PEOPLE of the anchor being served
    created,           \* TRUE once TEAMS and UNASSIGNED have been assigned
    TEAMS,             \* list[list[Person]]
    UNASSIGNED,        \* set[Person]
    draft_i,           \* position in TEAMS*(TARGET_TEAM_SIZE-1)
    leftovers,         \* part of UNASSIGNED.copy() phase 2 has yet to visit
    team_id,           \* team of the phase 3 loop / of the leader pass
    slots,             \* iterations left of range(TARGET_TEAM_SIZE - len(team))
    swap_chain,        \* chain being applied
    hop_i,             \* next hop of swap_chain
    target_team,       \* index of the team the next hop is appended to
    sizes_before,      \* Sizes when the chain being applied was found
    promoted,          \* teams whose leader the final pass replaced
    probe,             \* timezones handed to tz_span / tz_dist
    span_out,          \* result of tz_span
    dist_out,          \* result of tz_dist
    configured_depth   \* value SWAP_CHAIN_SEARCH_DEPTH is set to for the run

vars == <<pc, PEOPLE, EXP_AVG, potential_leaders, leaders, anchor_i, created,
          TEAMS, UNASSIGNED, draft_i, leftovers, team_id, slots, swap_chain,
          hop_i, target_team, sizes_before, promoted, probe, span_out, dist_out,
          configured_depth>>

\* ------------------------------------------------------------------ helpers
Max(a, b) == IF a >= b THEN a ELSE b
Min(a, b) == IF a <= b THEN a ELSE b
Abs(a) == IF a >= 0 THEN a ELSE -a
Range(s) == {s[i] : i \in 1..Len(s)}

RECURSIVE SumSeq(_)
SumSeq(s) == IF s = <<>> THEN 0 ELSE s[1] + SumSeq(Tail(s))

RECURSIVE MaxSeq(_)
MaxSeq(s) == IF Len(s) = 1 THEN s[1] ELSE Max(s[1], MaxSeq(Tail(s)))

\* a removal that is forgotten
RemoveNothing(s, x) == s

\* s.remove(x): drops the first element equal to x
Remove(s, x) ==
    LET k == CHOOSE i \in 1..Len(s) : s[i] = x /\ \A j \in 1..(i - 1) : s[j] # x
    IN  SubSeq(s, 1, k - 1) \o SubSeq(s, k + 1, Len(s))

\* [p for p in s if p != x]
Without(s, x) == SelectSeq(s, LAMBDA p : p # x)

\* lexicographic order on integer tuples of equal length
RECURSIVE LexLess(_, _)
LexLess(a, b) ==
    /\ a # <<>>
    /\ \/ a[1] < b[1]
       \/ a[1] = b[1] /\ LexLess(Tail(a), Tail(b))

\* sorted(s, key=...): a stable sort; before[<<x, y>>] says that x sorts
\* strictly before y
InsertSorted(s, x, before) ==
    LET later == {i \in 1..Len(s) : before[<<x, s[i]>>]}
        k == IF later = {} THEN Len(s) + 1
             ELSE CHOOSE i \in later : \A j \in later : i <= j
    IN  SubSeq(s, 1, k - 1) \o <<x>> \o SubSeq(s, k, Len(s))

RECURSIVE StableSort(_, _)
StableSort(s, before) ==
    IF s = <<>> THEN <<>>
    ELSE InsertSorted(StableSort(SubSeq(s, 1, Len(s) - 1), before), s[Len(s)], before)

\* ------------------------------------------------------------------- Person
Person(id, tz, exp, lead_priority) ==
    [id |-> id, tz |-> tz % Day, exp |-> exp, lead_priority |-> lead_priority]

\* Two participants with the same timezone, experience and lead priority
\* differ in nothing the algorithm reads, and exchanging them in a run gives
\* another run.  Where a set's iteration order decides between participants,
\* the arbitrary order is therefore taken among the participants that differ:
\* of those that are alike, the one with the least id stands for all.
Alike(p, q) == p.tz = q.tz /\ p.exp = q.exp /\ p.lead_priority = q.lead_priority

AnyOrder(set) == {p \in set : \A q \in set : Alike(p, q) => p.id <= q.id}

Tzs(team) == [i \in 1..Len(team) |-> team[i].tz]
Exps(team) == [i \in 1..Len(team) |-> team[i].exp]

\* mean(values), as <<sum, count>>
Mean(values) == <<SumSeq(values), Len(values)>>

\* ----------------------------------------------------------------- geometry
\* tz_span without the "+ 24" of the gap across midnight
tz_span_no_wrap(tzs) ==
    LET vals == [i \in 1..Len(tzs) |-> tzs[i] % Day]
        sorted == StableSort(vals, [p \in Range(vals) \X Range(vals) |-> p[1] < p[2]])
        gaps == [i \in 1..(Len(sorted) - 1) |-> sorted[i + 1] - sorted[i]]
                    \o <<sorted[1] - sorted[Len(sorted)]>>
    IN  Day - MaxSeq(gaps)

tz_span(tzs) ==
    LET vals == [i \in 1..Len(tzs) |-> tzs[i] % Day]
        sorted == StableSort(vals, [p \in Range(vals) \X Range(vals) |-> p[1] < p[2]])
        gaps == [i \in 1..(Len(sorted) - 1) |-> sorted[i + 1] - sorted[i]]
                    \o <<sorted[1] - sorted[Len(sorted)] + Day>>
    IN  Day - MaxSeq(gaps)

tz_dist(x, y) == Min(Abs(x - y), Day - Abs(x - y))

\* ------------------------------------------------------------------ scoring
\* Least common multiple of 1..n: team averages of up to n members, times
\* this number, are whole.
RECURSIVE Gcd(_, _)
Gcd(a, b) == IF b = 0 THEN a ELSE Gcd(b, a % b)

RECURSIVE LcmUpTo(_)
LcmUpTo(n) == IF n <= 1 THEN 1 ELSE (LcmUpTo(n - 1) * n) \div Gcd(LcmUpTo(n - 1), n)

ExpScale == LcmUpTo(TARGET_TEAM_SIZE + 1)

\* before**2 - after**2, times (ExpScale * global_avg[2])**2 so that the
\* value is a whole number; every team scored has at most TARGET_TEAM_SIZE
\* members
exp_improvement(candidate, team, global_avg) ==
    LET team_exp == SumSeq(Exps(team))
        n == Len(team)
        before == (team_exp * global_avg[2] - global_avg[1] * n) * (ExpScale \div n)
        after == ((team_exp + candidate.exp) * global_avg[2] - global_avg[1] * (n + 1))
                     * (ExpScale \div (n + 1))
    IN  before * before - after * after

\* abs(EXP_AVG - avg) <= TARGET_EXP_RADIUS for avg = mean(exps)
WithinExpRadius(exps) ==
    LET avg == Mean(exps)
    IN  Abs(EXP_AVG[1] * avg[2] - avg[1] * EXP_AVG[2]) * TARGET_EXP_RADIUS[2]
            <= TARGET_EXP_RADIUS[1] * EXP_AVG[2] * avg[2]

\* key of the leader max(), times 2 (TARGET_TZ_SPAN/2 is no whole number)
LeaderKey(pl, target_tz) ==
    <<-Max(TARGET_TZ_SPAN, 2 * tz_dist(pl.tz, target_tz)), pl.lead_priority, pl.exp>>

\* key of the phase 1 and phase 2 max()
FitKey(person, team) ==
    <<-Max(TARGET_TZ_SPAN, tz_span(Append(Tzs(team), person.tz))),
      exp_improvement(person, team, EXP_AVG)>>

\* a span test that only looks at the distance to the leader
NearbyLeader(person, team) == MAX_TZ_SPAN >= tz_dist(team[1].tz, person.tz)

\* the span test of phases 1 and 2
Nearby(person, team) == MAX_TZ_SPAN >= tz_span(Append(Tzs(team), person.tz))

\* ----------------------------------------------------------------- loading
KindOf(p) == CHOOSE k \in 1..Len(Kinds) : Kinds[k] = <<p.tz, p.exp, p.lead_priority>>

\* load_final_participants appends one Person per row of the file
LoadParticipant ==
    /\ pc = "load"
    /\ Len(PEOPLE) < MaxPeople
    /\ \E k \in 1..Len(Kinds) :
          /\ PEOPLE # <<>> => k >= KindOf(PEOPLE[Len(PEOPLE)])
          /\ PEOPLE' = Append(PEOPLE,
                 Person(Len(PEOPLE) + 1, Kinds[k][1], Kinds[k][2], Kinds[k][3]))
    /\ UNCHANGED <<pc, EXP_AVG, potential_leaders, leaders, anchor_i, created,
                   TEAMS, UNASSIGNED, draft_i, leftovers, team_id, slots,
                   swap_chain, hop_i, target_team, sizes_before, promoted,
                   probe, configured_depth, span_out, dist_out>>

\* __main__: EXP_AVG is set and form_teams is entered
StartFormTeams ==
    /\ pc = "load"
    /\ PEOPLE # <<>>
    /\ EXP_AVG' = Mean(Exps(PEOPLE))
    /\ potential_leaders' = {PEOPLE[i] : i \in {j \in 1..Len(PEOPLE) : PEOPLE[j].lead_priority > 0}}
    /\ pc' = "check"
    /\ UNCHANGED <<PEOPLE, leaders, anchor_i, created, TEAMS, UNASSIGNED,
                   draft_i, leftovers, team_id, slots, swap_chain, hop_i,
                   target_team, sizes_before, promoted, probe, configured_depth, span_out, dist_out>>

\* --------------------------------------------------------- leader selection
\* the test without the "+1"
NotEnoughLeadersNoSpare(candidates, people) ==
    Cardinality(candidates) * TARGET_TEAM_SIZE <= Len(people)

NotEnoughLeaders(candidates, people) ==
    (Cardinality(candidates) + 1) * TARGET_TEAM_SIZE <= Len(people)

RaiseNotEnoughLeaders ==
    /\ pc = "check"
    /\ NotEnoughLeaders(potential_leaders, PEOPLE)
    /\ pc' = "config_error"
    /\ UNCHANGED <<PEOPLE, EXP_AVG, potential_leaders, leaders, anchor_i, created,
                   TEAMS, UNASSIGNED, draft_i, leftovers, team_id, slots,
                   swap_chain, hop_i, target_team, sizes_before, promoted,
                   probe, configured_depth, span_out, dist_out>>

\* PEOPLE.sort(key=lambda p: (p.tz-12)%24)
SortedByTz(people) ==
    StableSort(people,
        [p \in Range(people) \X Range(people) |->
            (p[1].tz - 12) % Day < (p[2].tz - 12) % Day])

\* first index (from 1) of PEOPLE[TARGET_TEAM_SIZE//2::TARGET_TEAM_SIZE]
FirstAnchor == (TARGET_TEAM_SIZE \div 2) + 1

SortPeople ==
    /\ pc = "check"
    /\ ~NotEnoughLeaders(potential_leaders, PEOPLE)
    /\ PEOPLE' = SortedByTz(PEOPLE)
    /\ leaders' = {}
    /\ anchor_i' = FirstAnchor
    /\ pc' = "pick"
    /\ UNCHANGED <<EXP_AVG, potential_leaders, created, TEAMS, UNASSIGNED,
                   draft_i, leftovers, team_id, slots, swap_chain, hop_i,
                   target_team, sizes_before, promoted, probe, configured_depth, span_out, dist_out>>

\* the elements max(pool, key) may return: the first maximal one in the
\* pool's iteration order, which for a set is any maximal one
BestLeaders(pool, target_tz) ==
    {pl \in AnyOrder(pool) : \A other \in pool :
        ~LexLess(LeaderKey(pl, target_tz), LeaderKey(other, target_tz))}

PickLeader ==
    /\ pc = "pick"
    /\ anchor_i <= Len(PEOPLE)
    /\ potential_leaders # {}
    /\ \E best_leader_match \in BestLeaders(potential_leaders, PEOPLE[anchor_i].tz) :
          /\ leaders' = leaders \cup {best_leader_match}
          /\ potential_leaders' = potential_leaders \ {best_leader_match}
    /\ anchor_i' = anchor_i + TARGET_TEAM_SIZE
    /\ UNCHANGED <<pc, PEOPLE, EXP_AVG, created, TEAMS, UNASSIGNED, draft_i,
                   leftovers, team_id, slots, swap_chain, hop_i, target_team,
                   sizes_before, promoted, probe, configured_depth, span_out, dist_out>>

\* max() of an empty set raises ValueError
PickLeaderEmptyPool ==
    /\ pc = "pick"
    /\ anchor_i <= Len(PEOPLE)
    /\ potential_leaders = {}
    /\ pc' = "value_error"
    /\ UNCHANGED <<PEOPLE, EXP_AVG, potential_leaders, leaders, anchor_i, created,
                   TEAMS, UNASSIGNED, draft_i, leftovers, team_id, slots,
                   swap_chain, hop_i, target_team, sizes_before, promoted,
                   probe, configured_depth, span_out, dist_out>>

\* the lists a set can be iterated into
Orderings(set) ==
    {s \in [1..Cardinality(set) -> set] :
        /\ \A p \in set : \E i \in DOMAIN s : s[i] = p
        /\ \A i, j \in DOMAIN s : (i < j /\ Alike(s[i], s[j])) => s[i].id < s[j].id}

\* TEAMS = [[leader] for leader in leaders]; UNASSIGNED = the others
InitTeams ==
    /\ pc = "pick"
    /\ anchor_i > Len(PEOPLE)
    /\ \E order \in Orderings(leaders) :
          TEAMS' = [i \in 1..Len(order) |-> <<order[i]>>]
    /\ UNASSIGNED' = {p \in Range(PEOPLE) : p \notin leaders}
    /\ created' = TRUE
    /\ draft_i' = 0
    /\ pc' = "phase1"
    /\ UNCHANGED <<PEOPLE, EXP_AVG, potential_leaders, leaders, anchor_i,
                   leftovers, team_id, slots, swap_chain, hop_i, target_team,
                   sizes_before, promoted, probe, configured_depth, span_out, dist_out>>

\* ------------------------------------------------------------------ phase 1
\* the team whose turn it is at position i (from 0) of TEAMS*(TARGET_TEAM_SIZE-1)
DraftingTeam(i) == (i % Len(TEAMS)) + 1

BestMatches(nearby_unassigned, first_team) ==
    {person \in AnyOrder(nearby_unassigned) : \A other \in nearby_unassigned :
        ~LexLess(FitKey(person, first_team), FitKey(other, first_team))}

Phase1Draft ==
    /\ pc = "phase1"
    /\ draft_i < Len(TEAMS) * (TARGET_TEAM_SIZE - 1)
    /\ LET t == DraftingTeam(draft_i)
           nearby_unassigned == {p \in UNASSIGNED : Nearby(p, TEAMS[t])}
       IN  /\ nearby_unassigned # {}
           /\ \E best_match \in BestMatches(nearby_unassigned, TEAMS[t]) :
                 /\ TEAMS' = [TEAMS EXCEPT ![t] = Append(@, best_match)]
                 /\ UNASSIGNED' = UNASSIGNED \ {best_match}
    /\ draft_i' = draft_i + 1
    /\ UNCHANGED <<pc, PEOPLE, EXP_AVG, potential_leaders, leaders, anchor_i,
                   created, leftovers, team_id, slots, swap_chain, hop_i,
                   target_team, sizes_before, promoted, probe, configured_depth, span_out, dist_out>>

\* nobody is near enough: the team stays short this round
Phase1Pass ==
    /\ pc = "phase1"
    /\ draft_i < Len(TEAMS) * (TARGET_TEAM_SIZE - 1)
    /\ \A p \in UNASSIGNED : ~Nearby(p, TEAMS[DraftingTeam(draft_i)])
    /\ draft_i' = draft_i + 1
    /\ UNCHANGED <<pc, PEOPLE, EXP_AVG, potential_leaders, leaders, anchor_i,
                   created, TEAMS, UNASSIGNED, leftovers, team_id, slots,
                   swap_chain, hop_i, target_team, sizes_before, promoted,
                   probe, configured_depth, span_out, dist_out>>

\* end of the drafting loop; phase 2 iterates over UNASSIGNED.copy()
Phase1End ==
    /\ pc = "phase1"
    /\ draft_i >= Len(TEAMS) * (TARGET_TEAM_SIZE - 1)
    /\ leftovers' = UNASSIGNED
    /\ pc' = "phase2"
    /\ UNCHANGED <<PEOPLE, EXP_AVG, potential_leaders, leaders, anchor_i, created,
                   TEAMS, UNASSIGNED, draft_i, team_id, slots, swap_chain, hop_i,
                   target_team, sizes_before, promoted, probe, configured_depth, span_out, dist_out>>

\* ------------------------------------------------------------------ phase 2
\* available_teams without the test on the size
AvailableTeamsAnySize(person) ==
    {t \in 1..Len(TEAMS) : tz_span(Append(Tzs(TEAMS[t]), person.tz)) <= MAX_TZ_SPAN}

AvailableTeams(person) ==
    {t \in 1..Len(TEAMS) :
        /\ Len(TEAMS[t]) <= TARGET_TEAM_SIZE
        /\ tz_span(Append(Tzs(TEAMS[t]), person.tz)) <= MAX_TZ_SPAN}

\* max(available_teams, key): the first maximal team of the list
BestTeamMatch(person, available_teams) ==
    CHOOSE t \in available_teams :
        /\ \A u \in available_teams :
              ~LexLess(FitKey(person, TEAMS[t]), FitKey(person, TEAMS[u]))
        /\ \A u \in available_teams :
              u < t => LexLess(FitKey(person, TEAMS[u]), FitKey(person, TEAMS[t]))

Phase2Place ==
    /\ pc = "phase2"
    /\ \E person \in AnyOrder(leftovers) :
          /\ AvailableTeams(person) # {}
          /\ TEAMS' = [TEAMS EXCEPT ![BestTeamMatch(person, AvailableTeams(person))]
                                        = Append(@, person)]
          /\ UNASSIGNED' = UNASSIGNED \ {person}
          /\ leftovers' = leftovers \ {person}
    /\ UNCHANGED <<pc, PEOPLE, EXP_AVG, potential_leaders, leaders, anchor_i,
                   created, draft_i, team_id, slots, swap_chain, hop_i,
                   target_team, sizes_before, promoted, probe, configured_depth, span_out, dist_out>>

Phase2Leave ==
    /\ pc = "phase2"
    /\ \E person \in AnyOrder(leftovers) :
          /\ AvailableTeams(person) = {}
          /\ leftovers' = leftovers \ {person}
    /\ UNCHANGED <<pc, PEOPLE, EXP_AVG, potential_leaders, leaders, anchor_i,
                   created, TEAMS, UNASSIGNED, draft_i, team_id, slots,
                   swap_chain, hop_i, target_team, sizes_before, promoted,
                   probe, configured_depth, span_out, dist_out>>

Phase2End ==
    /\ pc = "phase2"
    /\ leftovers = {}
    /\ team_id' = 1
    /\ pc' = "phase3"
    /\ UNCHANGED <<PEOPLE, EXP_AVG, potential_leaders, leaders, anchor_i, created,
                   TEAMS, UNASSIGNED, draft_i, leftovers, slots, swap_chain, hop_i,
                   target_team, sizes_before, promoted, probe, configured_depth, span_out, dist_out>>

\* ---------------------------------------------------------------- find_swap
Hop(person, from_team_id) == [person |-> person, from_team_id |-> from_team_id]

\* the tests on the receiving team without the one on the experience
FitsTargetSpanOnly(target, person) ==
    tz_span(Append(Tzs(target), person.tz)) <= MAX_TZ_SPAN

\* the tests on the team that receives person
FitsTarget(target, person) ==
    /\ tz_span(Append(Tzs(target), person.tz)) <= MAX_TZ_SPAN
    /\ WithinExpRadius(Append(Exps(target), person.exp))

\* the tests on the team that gives person away without a replacement
KeepsSource(from_team, person) ==
    /\ tz_span(Tzs(Without(from_team, person))) <= MAX_TZ_SPAN
    /\ WithinExpRadius(Exps(Without(from_team, person)))

\* a threshold that is one too low
SpareSourceAtTarget(from_team) == ~(Len(from_team) < TARGET_TEAM_SIZE)

\* a team large enough not to require a replacement
SpareSource(from_team) == ~(Len(from_team) < TARGET_TEAM_SIZE + 1)

\* a team that may give a member away against a replacement
ReplaceableSource(from_team) == ~(Len(from_team) < TARGET_TEAM_SIZE)

\* <<from_team_id, index>> of every member but the leaders of the teams that
\* are not involved, in the order of the two nested loops
FirstPair(pairs) ==
    CHOOSE p \in pairs : \A q \in pairs : p[1] < q[1] \/ (p[1] = q[1] /\ p[2] <= q[2])

Members(involved_teams) ==
    {<<t, i>> \in (1..Len(TEAMS)) \X (2..(TARGET_TEAM_SIZE + 1)) :
        t \notin involved_teams /\ i <= Len(TEAMS[t])}

\* recursive calls that skip UNASSIGNED too
SkipUnassignedAlways == TRUE

\* whether the recursive calls of find_swap skip UNASSIGNED (the default of
\* the parameter skip_unassigned)
SkipUnassignedDefault == FALSE

\* whether the call of form_teams skips UNASSIGNED
SkipUnassignedTop == TRUE

\* The chains find_swap can return, {} when it returns None.  Only the hop
\* from UNASSIGNED depends on the iteration order of a set.
RECURSIVE find_swap(_, _, _, _)
find_swap(target, involved_teams, search_depth, skip_unassigned) ==
    LET fitting == IF skip_unassigned THEN {}
                   ELSE {person \in UNASSIGNED : FitsTarget(target, person)}
        spare == {m \in Members(involved_teams) :
                     /\ SpareSource(TEAMS[m[1]])
                     /\ FitsTarget(target, TEAMS[m[1]][m[2]])
                     /\ KeepsSource(TEAMS[m[1]], TEAMS[m[1]][m[2]])}
        replaced == {m \in Members(involved_teams) :
                     /\ ReplaceableSource(TEAMS[m[1]])
                     /\ FitsTarget(target, TEAMS[m[1]][m[2]])
                     /\ find_swap(Without(TEAMS[m[1]], TEAMS[m[1]][m[2]]),
                                  involved_teams \cup {m[1]},
                                  search_depth - 1,
                                  SkipUnassignedDefault) # {}}
    IN  IF fitting # {}
          THEN {<<Hop(person, None)>> : person \in AnyOrder(fitting)}
        ELSE IF spare # {}
          THEN LET m == FirstPair(spare) IN {<<Hop(TEAMS[m[1]][m[2]], m[1])>>}
        ELSE IF search_depth <= 1
          THEN {}
        ELSE IF replaced # {}
          THEN LET m == FirstPair(replaced)
               IN  {<<Hop(TEAMS[m[1]][m[2]], m[1])>> \o swap :
                       swap \in find_swap(Without(TEAMS[m[1]], TEAMS[m[1]][m[2]]),
                                          involved_teams \cup {m[1]},
                                          search_depth - 1,
                                          SkipUnassignedDefault)}
        ELSE {}

\* ------------------------------------------------------------------ phase 3
\* what a repair starts from: the sizes of the teams and of UNASSIGNED and
\* the team under repair
Sizes == [teams |-> [t \in 1..Len(TEAMS) |-> Len(TEAMS[t])],
          unassigned |-> Cardinality(UNASSIGNED),
          team |-> team_id]

\* for team_id, team in enumerate(TEAMS): the range of the inner loop
Phase3NextTeam ==
    /\ pc = "phase3"
    /\ team_id <= Len(TEAMS)
    /\ slots' = Max(0, TARGET_TEAM_SIZE - Len(TEAMS[team_id]))
    /\ pc' = "repair"
    /\ UNCHANGED <<PEOPLE, EXP_AVG, potential_leaders, leaders, anchor_i, created,
                   TEAMS, UNASSIGNED, draft_i, leftovers, team_id, swap_chain,
                   hop_i, target_team, sizes_before, promoted, probe, configured_depth, span_out,
                   dist_out>>

Phase3End ==
    /\ pc = "phase3"
    /\ team_id > Len(TEAMS)
    /\ team_id' = 1
    /\ pc' = "reconcile"
    /\ UNCHANGED <<PEOPLE, EXP_AVG, potential_leaders, leaders, anchor_i, created,
                   TEAMS, UNASSIGNED, draft_i, leftovers, slots, swap_chain, hop_i,
                   target_team, sizes_before, promoted, probe, configured_depth, span_out, dist_out>>

\* the inner loop has run out
RepairDone ==
    /\ pc = "repair"
    /\ slots = 0
    /\ team_id' = team_id + 1
    /\ pc' = "phase3"
    /\ UNCHANGED <<PEOPLE, EXP_AVG, potential_leaders, leaders, anchor_i, created,
                   TEAMS, UNASSIGNED, draft_i, leftovers, slots, swap_chain, hop_i,
                   target_team, sizes_before, promoted, probe, configured_depth, span_out, dist_out>>

TopSwaps == find_swap(TEAMS[team_id], {team_id}, TopSearchDepth, SkipUnassignedTop)

\* swap_chain is None (here <<>>): break leaves the inner loop
RepairGiveUp ==
    /\ pc = "repair"
    /\ slots > 0
    /\ TopSwaps = {}
    /\ swap_chain' = <<>>
    /\ hop_i' = 1
    /\ slots' = 0
    /\ UNCHANGED <<pc, PEOPLE, EXP_AVG, potential_leaders, leaders, anchor_i,
                   created, TEAMS, UNASSIGNED, draft_i, leftovers, team_id,
                   target_team, sizes_before, promoted, probe, configured_depth, span_out, dist_out>>

RepairFind ==
    /\ pc = "repair"
    /\ slots > 0
    /\ \E chain \in TopSwaps : swap_chain' = chain
    /\ hop_i' = 1
    /\ target_team' = team_id
    /\ sizes_before' = Sizes
    /\ slots' = slots - 1
    /\ pc' = "apply"
    /\ UNCHANGED <<PEOPLE, EXP_AVG, potential_leaders, leaders, anchor_i, created,
                   TEAMS, UNASSIGNED, draft_i, leftovers, team_id, promoted,
                   probe, configured_depth, span_out, dist_out>>

\* one turn of "for person, from_team_id in swap_chain"
AfterHop == IF hop_i = Len(swap_chain) THEN "repair" ELSE "apply"

\* a target that never moves on to the source team
NextTargetStuck(current, from_team_id) == current

\* the team the next hop's person is appended to
NextTarget(current, from_team_id) == from_team_id

ApplyHopFromTeam ==
    /\ pc = "apply"
    /\ swap_chain[hop_i].from_team_id # None
    /\ LET person == swap_chain[hop_i].person
           from_team_id == swap_chain[hop_i].from_team_id
           appended == [TEAMS EXCEPT ![target_team] = Append(@, person)]
       IN  /\ TEAMS' = [appended EXCEPT ![from_team_id] = Remove(@, person)]
           /\ target_team' = NextTarget(target_team, from_team_id)
    /\ hop_i' = hop_i + 1
    /\ pc' = AfterHop
    /\ UNCHANGED <<PEOPLE, EXP_AVG, potential_leaders, leaders, anchor_i, created,
                   UNASSIGNED, draft_i, leftovers, team_id, slots, swap_chain,
                   sizes_before, promoted, probe, configured_depth, span_out, dist_out>>

ApplyHopFromUnassigned ==
    /\ pc = "apply"
    /\ swap_chain[hop_i].from_team_id = None
    /\ LET person == swap_chain[hop_i].person
       IN  /\ TEAMS' = [TEAMS EXCEPT ![target_team] = Append(@, person)]
           /\ UNASSIGNED' = UNASSIGNED \ {person}
    /\ target_team' = NextTarget(target_team, None)
    /\ hop_i' = hop_i + 1
    /\ pc' = AfterHop
    /\ UNCHANGED <<PEOPLE, EXP_AVG, potential_leaders, leaders, anchor_i, created,
                   draft_i, leftovers, team_id, slots, swap_chain, sizes_before,
                   promoted, probe, configured_depth, span_out, dist_out>>

\* -------------------------------------------------------------- leader pass
\* the sort without reverse=True
NewOrderAscending(team) ==
    StableSort(team,
        [p \in Range(team) \X Range(team) |->
            LexLess(<<p[1].lead_priority, p[1].exp>>, <<p[2].lead_priority, p[2].exp>>)])

\* sorted(team, key=lambda p: (p.lead_priority, p.exp), reverse=True)
NewOrder(team) ==
    StableSort(team,
        [p \in Range(team) \X Range(team) |->
            LexLess(<<p[2].lead_priority, p[2].exp>>, <<p[1].lead_priority, p[1].exp>>)])

PromoteLeader ==
    /\ pc = "reconcile"
    /\ team_id <= Len(TEAMS)
    /\ NewOrder(TEAMS[team_id])[1] # TEAMS[team_id][1]
    /\ TEAMS' = [TEAMS EXCEPT ![team_id] = NewOrder(@)]
    /\ promoted' = promoted \cup {team_id}
    /\ team_id' = team_id + 1
    /\ UNCHANGED <<pc, PEOPLE, EXP_AVG, potential_leaders, leaders, anchor_i,
                   created, UNASSIGNED, draft_i, leftovers, slots, swap_chain,
                   hop_i, target_team, sizes_before, probe, configured_depth, span_out, dist_out>>

KeepLeader ==
    /\ pc = "reconcile"
    /\ team_id <= Len(TEAMS)
    /\ NewOrder(TEAMS[team_id])[1] = TEAMS[team_id][1]
    /\ team_id' = team_id + 1
    /\ UNCHANGED <<pc, PEOPLE, EXP_AVG, potential_leaders, leaders, anchor_i,
                   created, TEAMS, UNASSIGNED, draft_i, leftovers, slots,
                   swap_chain, hop_i, target_team, sizes_before, promoted,
                   probe, configured_depth, span_out, dist_out>>

\* form_teams returns
Finish ==
    /\ pc = "reconcile"
    /\ team_id > Len(TEAMS)
    /\ pc' = "done"
    /\ UNCHANGED <<PEOPLE, EXP_AVG, potential_leaders, leaders, anchor_i, created,
                   TEAMS, UNASSIGNED, draft_i, leftovers, team_id, slots,
                   swap_chain, hop_i, target_team, sizes_before, promoted,
                   probe, configured_depth, span_out, dist_out>>

\* ------------------------------------------------------------ specification
Blank ==
    /\ PEOPLE = <<>>
    /\ EXP_AVG = <<0, 1>>
    /\ potential_leaders = {}
    /\ leaders = {}
    /\ anchor_i = 0
    /\ created = FALSE
    /\ TEAMS = <<>>
    /\ UNASSIGNED = {}
    /\ draft_i = 0
    /\ leftovers = {}
    /\ team_id = 0
    /\ slots = 0
    /\ swap_chain = <<>>
    /\ hop_i = 1
    /\ target_team = None
    /\ sizes_before = [teams |-> <<>>, unassigned |-> 0, team |-> 0]
    /\ promoted = {}
    /\ span_out = 0
    /\ dist_out = 0

Init ==
    /\ pc = "load"
    /\ probe = <<>>
    /\ configured_depth = SWAP_CHAIN_SEARCH_DEPTH
    /\ Blank

Next ==
    \/ LoadParticipant
    \/ StartFormTeams
    \/ RaiseNotEnoughLeaders
    \/ SortPeople
    \/ PickLeader
    \/ PickLeaderEmptyPool
    \/ InitTeams
    \/ Phase1Draft
    \/ Phase1Pass
    \/ Phase1End
    \/ Phase2Place
    \/ Phase2Leave
    \/ Phase2End
    \/ Phase3NextTeam
    \/ Phase3End
    \/ RepairDone
    \/ RepairGiveUp
    \/ RepairFind
    \/ ApplyHopFromTeam
    \/ ApplyHopFromUnassigned
    \/ PromoteLeader
    \/ KeepLeader
    \/ Finish

Spec == Init /\ [][Next]_vars

\* ------------------------------------------- the search depth as a setting
\* SWAP_CHAIN_SEARCH_DEPTH is a setting of the module: the same program, run
\* with the constant set to each value up to the one of the repository
DepthSettings == 1..SWAP_CHAIN_SEARCH_DEPTH

InitDepth ==
    /\ pc = "load"
    /\ probe = <<>>
    /\ configured_depth \in DepthSettings
    /\ Blank

SpecDepth == InitDepth /\ [][Next]_vars

\* ----------------------------------------------- the geometry on its own
\* tz_span and tz_dist are pure: they are applied to every list of up to
\* MaxProbe timezones
InitTz ==
    /\ pc = "probe"
    /\ \E n \in 1..MaxProbe : probe \in [1..n -> TzValues]
    /\ configured_depth = SWAP_CHAIN_SEARCH_DEPTH
    /\ Blank

MeasureTz ==
    /\ pc = "probe"
    /\ span_out' = tz_span(probe)
    /\ dist_out' = tz_dist(probe[1], probe[Len(probe)])
    /\ pc' = "measured"
    /\ UNCHANGED <<PEOPLE, EXP_AVG, potential_leaders, leaders, anchor_i, created,
                   TEAMS, UNASSIGNED, draft_i, leftovers, team_id, slots,
                   swap_chain, hop_i, target_team, sizes_before, promoted, probe, configured_depth>>

NextTz == MeasureTz

SpecTz == InitTz /\ [][NextTz]_vars

\* ------------------------------------------------------------------- claims
Ids(team) == {team[i].id : i \in 1..Len(team)}
SetIds(set) == {p.id : p \in set}
LeadKey(p) == <<p.lead_priority, p.exp>>
TeamSpan(t) == tz_span(Tzs(TEAMS[t]))
\* a chain has been found and, when Applied, also carried out to its last hop
Found == swap_chain # <<>>
Applied == Found /\ hop_i > Len(swap_chain)
LastHop == swap_chain[Len(swap_chain)]
\* anchors of a roster of n: PEOPLE[TARGET_TEAM_SIZE//2::TARGET_TEAM_SIZE]
NumAnchors(n) ==
    Cardinality({i \in FirstAnchor..n : (i - FirstAnchor) % TARGET_TEAM_SIZE = 0})
NumCandidates == Cardinality({i \in 1..Len(PEOPLE) : PEOPLE[i].lead_priority > 0})

\* C1: once TEAMS and UNASSIGNED exist, after every draft, placement, chain
\* hop and leader pass every participant of the roster is in exactly one
\* team or in UNASSIGNED: no team lists anybody twice, the teams are pairwise
\* disjoint and disjoint from UNASSIGNED, and together with UNASSIGNED they
\* are the whole roster.
C1_RosterPartition ==
    created =>
        /\ \A t \in 1..Len(TEAMS) : Cardinality(Ids(TEAMS[t])) = Len(TEAMS[t])
        /\ \A t, u \in 1..Len(TEAMS) : t # u => Ids(TEAMS[t]) \cap Ids(TEAMS[u]) = {}
        /\ \A t \in 1..Len(TEAMS) : Ids(TEAMS[t]) \cap SetIds(UNASSIGNED) = {}
        /\ UNION {Ids(TEAMS[t]) : t \in 1..Len(TEAMS)} \cup SetIds(UNASSIGNED) = Ids(PEOPLE)
        /\ Cardinality(Ids(PEOPLE)) = Len(PEOPLE)

C1_Witness ==
    /\ pc = "done"
    /\ Len(TEAMS) >= 2
    /\ sizes_before.teams # <<>>
    /\ promoted # {}
    /\ UNASSIGNED # {}

\* C2: from the initialisation of the teams to the end of form_teams no team
\* spans more than MAX_TZ_SPAN.
C2_SpanCeiling ==
    created => \A t \in 1..Len(TEAMS) : TeamSpan(t) <= MAX_TZ_SPAN

C2_Witness ==
    /\ pc = "done"
    /\ UNASSIGNED # {}
    /\ \E t \in 1..Len(TEAMS) : Len(TEAMS[t]) < TARGET_TEAM_SIZE /\ TeamSpan(t) = MAX_TZ_SPAN

\* C3: when form_teams has finished, the first member of every team has a
\* (lead_priority, exp) key that no other member of the team exceeds.
C3_LeaderFirst ==
    pc = "done" =>
        \A t \in 1..Len(TEAMS) : \A i \in 1..Len(TEAMS[t]) :
            ~LexLess(LeadKey(TEAMS[t][1]), LeadKey(TEAMS[t][i]))

C3_Witness ==
    /\ pc = "done"
    /\ promoted # {}
    /\ \E t \in 1..Len(TEAMS) : t \notin promoted /\ Len(TEAMS[t]) > 1

\* C4: form_teams raises "Not enough leaders" exactly when
\* (candidates + 1) * TARGET_TEAM_SIZE <= len(PEOPLE), and then no leader
\* has been chosen and TEAMS and UNASSIGNED have not been created.
C4_ConfigError ==
    /\ pc = "config_error" =>
          /\ (NumCandidates + 1) * TARGET_TEAM_SIZE <= Len(PEOPLE)
          /\ leaders = {}
          /\ ~created /\ TEAMS = <<>> /\ UNASSIGNED = {}
    /\ pc \notin {"load", "check", "config_error"} =>
          (NumCandidates + 1) * TARGET_TEAM_SIZE > Len(PEOPLE)

C4_Witness ==
    /\ pc = "config_error"
    /\ Len(PEOPLE) > TARGET_TEAM_SIZE

\* C5: for every roster that passes the configuration check the pool of
\* candidates is never empty when an anchor is served, and the teams are
\* initialised with one distinct leader per anchor.
C5_OneLeaderPerAnchor ==
    /\ pc # "value_error"
    /\ created =>
          /\ Len(TEAMS) = NumAnchors(Len(PEOPLE))
          /\ Cardinality(SetIds(leaders)) = NumAnchors(Len(PEOPLE))

\* C7: after a chain has been applied, the repaired team has one member more
\* than before, the source of the last hop (a team, or UNASSIGNED) has one
\* less, and every other team, the intermediate teams of the chain among
\* them, has the size it had.
C7_ChainMovesOne ==
    Applied =>
        LET last == LastHop.from_team_id
            sizeNow(t) == Len(TEAMS[t])
            sizeThen(t) == sizes_before.teams[t]
        IN  /\ Len(TEAMS) = Len(sizes_before.teams)
            /\ sizeNow(sizes_before.team) = sizeThen(sizes_before.team) + 1
            /\ last # None => sizeNow(last) = sizeThen(last) - 1
            /\ Cardinality(UNASSIGNED) =
                   sizes_before.unassigned - (IF last = None THEN 1 ELSE 0)
            /\ \A k \in 1..(Len(swap_chain) - 1) :
                   sizeNow(swap_chain[k].from_team_id) = sizeThen(swap_chain[k].from_team_id)
            /\ \A t \in 1..Len(TEAMS) :
                   (t # sizes_before.team /\ t # last) => sizeNow(t) = sizeThen(t)

C7_Witness ==
    /\ pc = "repair"
    /\ Applied
    /\ Len(swap_chain) = 2
    /\ LastHop.from_team_id = None
    /\ Len(TEAMS[swap_chain[1].from_team_id]) >= TARGET_TEAM_SIZE

\* C8: for two timezones of [0, 24) tz_span is tz_dist, that is
\* min(|a-b|, 24-|a-b|); tz_span of a single timezone is 0.
C8_SpanIsDist ==
    pc = "measured" =>
        /\ Len(probe) = 1 => span_out = 0
        /\ Len(probe) = 2 =>
              /\ span_out = dist_out
              /\ \/ span_out = Abs(probe[1] - probe[2]) /\ span_out <= Day - span_out
                 \/ span_out = Day - Abs(probe[1] - probe[2]) /\ span_out <= Day - span_out

C8_Witness ==
    /\ pc = "measured"
    /\ probe = <<23, 1>>
    /\ span_out = 2

\* C9 as stated: a hop from UNASSIGNED (from_team_id None) never comes from
\* a recursive call of find_swap, it can only be the hop of the top-level
\* call, the first of the chain.
C9_UnassignedOnlyAtTop ==
    \A k \in 1..Len(swap_chain) : swap_chain[k].from_team_id = None => k = 1

\* the chains that end in UNASSIGNED after one replaced member: a member of
\* another team that fits the short team, and somebody unassigned who fits
\* the team that member leaves
ThroughUnassigned(short) ==
    {<<m, person>> \in Members({short}) \X UNASSIGNED :
        /\ ReplaceableSource(TEAMS[m[1]])
        /\ FitsTarget(TEAMS[short], TEAMS[m[1]][m[2]])
        /\ FitsTarget(Without(TEAMS[m[1]], TEAMS[m[1]][m[2]]), person)}

\* C9, amended: the call of form_teams skips UNASSIGNED and the recursive
\* calls scan it.  A hop from UNASSIGNED is never the first hop of a chain
\* and always the last; and the search only gives a short team up when no
\* member of another team fits it whose place somebody unassigned could take.
C9_UnassignedOnlyRecursive ==
    /\ \A k \in 1..Len(swap_chain) :
          swap_chain[k].from_team_id = None => (k > 1 /\ k = Len(swap_chain))
    /\ (pc = "repair" /\ slots = 0 /\ Len(TEAMS[team_id]) < TARGET_TEAM_SIZE) =>
          ThroughUnassigned(team_id) = {}

C9_Witness ==
    /\ pc = "apply"
    /\ hop_i = 1
    /\ Len(swap_chain) = 2
    /\ swap_chain[1].from_team_id # None
    /\ swap_chain[2].from_team_id = None
    /\ swap_chain[2].person \in UNASSIGNED

\* C10 as stated: the last hop of a chain, when it takes a member of a team
\* without a replacement, takes it from a team of more than
\* TARGET_TEAM_SIZE + 1 members.
C10_SpareAboveTargetPlusOne ==
    (Found /\ LastHop.from_team_id # None) =>
        sizes_before.teams[LastHop.from_team_id] > TARGET_TEAM_SIZE + 1

\* C10, amended: such a hop takes the member from a team of at least
\* TARGET_TEAM_SIZE + 1 members, never from a smaller one.
C10_SpareAtLeastTargetPlusOne ==
    (Found /\ LastHop.from_team_id # None) =>
        sizes_before.teams[LastHop.from_team_id] >= TARGET_TEAM_SIZE + 1

C10_Witness ==
    /\ pc = "apply"
    /\ hop_i = 1
    /\ Len(swap_chain) = 1
    /\ LastHop.from_team_id # None
    /\ Len(TEAMS[LastHop.from_team_id]) = TARGET_TEAM_SIZE + 1
    /\ Len(TEAMS[team_id]) < TARGET_TEAM_SIZE

\* C11: whatever SWAP_CHAIN_SEARCH_DEPTH is set to, a chain that phase 3
\* finds and applies has at most that many hops (a chain of k hops is the
\* result of k nested calls of find_swap).
C11_DepthBound ==
    Found => Len(swap_chain) <= configured_depth

\* the teams a chain touches: the team under repair and the team of every hop
Touched ==
    ({sizes_before.team} \cup {swap_chain[k].from_team_id : k \in 1..Len(swap_chain)})
        \ {None}

\* |EXP_AVG - mean experience of team t|, times EXP_AVG[2] * len(team)
ExpDeviation(t) ==
    Abs(EXP_AVG[1] * Len(TEAMS[t]) - SumSeq(Exps(TEAMS[t])) * EXP_AVG[2])

WithinBoth(t) ==
    /\ TeamSpan(t) <= MAX_TZ_SPAN
    /\ ExpDeviation(t) * TARGET_EXP_RADIUS[2]
           <= TARGET_EXP_RADIUS[1] * EXP_AVG[2] * Len(TEAMS[t])

\* C12: after a chain has been applied, the repaired team, every
\* intermediate team and the team the last hop came from span at most
\* MAX_TZ_SPAN and have a mean experience within TARGET_EXP_RADIUS (0.5) of
\* the global average.
C12_ChainKeepsConstraints ==
    Applied => \A t \in Touched : WithinBoth(t)

C12_Witness ==
    /\ pc = "repair"
    /\ Applied
    /\ Cardinality(Touched) = 2
    /\ \E t \in Touched : TeamSpan(t) = MAX_TZ_SPAN
    /\ \E t \in Touched : ExpDeviation(t) > 0

\* C13: no team ever has more than TARGET_TEAM_SIZE + 1 members, phase 1
\* fills the teams to at most TARGET_TEAM_SIZE, and a team that had at least
\* TARGET_TEAM_SIZE members when a chain was found has at least that many
\* once the chain has been applied.
C13_TeamSizeBounds ==
    /\ created => \A t \in 1..Len(TEAMS) : Len(TEAMS[t]) <= TARGET_TEAM_SIZE + 1
    /\ pc = "phase1" => \A t \in 1..Len(TEAMS) : Len(TEAMS[t]) <= TARGET_TEAM_SIZE
    /\ Applied =>
          \A t \in 1..Len(TEAMS) :
              sizes_before.teams[t] >= TARGET_TEAM_SIZE => Len(TEAMS[t]) >= TARGET_TEAM_SIZE

C13_Witness ==
    /\ pc = "repair"
    /\ Applied
    /\ LastHop.from_team_id # None
    /\ sizes_before.teams[LastHop.from_team_id] = TARGET_TEAM_SIZE + 1
    /\ Len(TEAMS[LastHop.from_team_id]) = TARGET_TEAM_SIZE
    /\ Len(TEAMS[sizes_before.team]) <= TARGET_TEAM_SIZE

====
